---- MODULE Spec2Model ----
(***************************************************************************)
(* Model of QAECircuit (src/qae_circuit.py): the builder of the gate       *)
(* sequence of a parameterized quantum autoencoder.                        *)
(*                                                                         *)
(* An instruction is a record [name, params, qubits]: the name the gate    *)
(* constructor stamps on it, its angle parameters and its qubit indices    *)
(* (control first).  A pyquil Program is modelled by its instruction       *)
(* sequence (Program.instructions); the gate definitions added by          *)
(* def_gates_program are not instructions and are left out.  Angles are    *)
(* opaque numbers that the code only copies and negates; they are          *)
(* modelled as integers.  A gate constructor is modelled by the name it    *)
(* stamps on the instructions it makes; the pyquil constructors (external  *)
(* to the repository) are taken to accept the call forms the code uses.    *)
(*                                                                         *)
(* A call that raises (IndexError, KeyError) is modelled by a result       *)
(* record with raised = TRUE; the object's program keeps what had been     *)
(* appended to it before the exception.                                    *)
(***************************************************************************)
EXTENDS Integers, Sequences, FiniteSets, TLC

\* ---------------------------------------------------------------- bounds
MaxQubits == 3
MaxLabel == 2
MaxOrderLen == 3
MaxDupLen == 2
ExtraThetas == 1
MaxCalls == 2
MaxProgLen == 2
MaxAngle == 1
MaxFlips == 2

VARIABLES
    num_qubits,         \* self.num_qubits
    num_latent_qubits,  \* self.num_latent_qubits
    num_input_qubits,   \* self.num_input_qubits
    qubits,             \* self.qubits
    axes,               \* self.axes
    thetas,             \* self.thetas
    program,            \* self.program.instructions
    returns,            \* outcome of every build_circuit call so far, in order
    flip_program,       \* argument `program` of the dagger_and_flip calls
    flip_qubits,        \* argument `qubits` of the dagger_and_flip calls
    flipped             \* outcome of every dagger_and_flip call so far, in order

vars == <<num_qubits, num_latent_qubits, num_input_qubits, qubits, axes, thetas,
          program, returns, flip_program, flip_qubits, flipped>>

config == <<num_qubits, num_latent_qubits, num_input_qubits, qubits, axes, thetas>>

\* ------------------------------------------------------- general helpers
Min(a, b) == IF a < b THEN a ELSE b

Range(s) == {s[k] : k \in 1..Len(s)}

SeqsUpTo(S, m) == UNION {[1..k -> S] : k \in 0..m}

\* Python's s[start:end] for 0 <= start, 0 <= end: out-of-range bounds are clamped
Slice(s, start, end) == SubSeq(s, Min(start, Len(s)) + 1, Min(end, Len(s)))

Ok(instructions) == [raised |-> FALSE, instructions |-> instructions]

Raised == [raised |-> TRUE, instructions |-> <<>>]

\* ---------------------------------------------------------- gate registry
RX == "RX"

RY == "RY"

RZ == "RZ"

crx_def == "CRX"

cry_def == "CRY"

crz_def == "CRZ"

CRX == crx_def

CRY == cry_def

CRZ == crx_def

gates_dict ==
    ("RX" :> RX) @@ ("CRX" :> CRX) @@
    ("RY" :> RY) @@ ("CRY" :> CRY) @@
    ("RZ" :> RZ) @@ ("CRZ" :> CRZ)

gate_from_axis(axis, arity) ==
    LET gate_str == "R" \o axis
    IN  gates_dict[IF 2 = arity THEN "C" \o gate_str ELSE gate_str]

\* gate(theta, qubit)
Gate1(gate, theta, qubit) ==
    [name |-> gate, params |-> <<theta>>, qubits |-> <<qubit>>]

\* gate(theta)(qubit_control, qubit)
Gate2(gate, theta, qubit_control, qubit) ==
    [name |-> gate, params |-> <<theta>>, qubits |-> <<qubit_control, qubit>>]

\* ------------------------------------------------------------ __init__
NumInputQubits(N, L) == (N + L) \div 2

DefaultQubits(N) == [k \in 1..N |-> k - 1]

DefaultAxes(n) == [k \in 1..(n + 2) |-> "X"]

\* ------------------------------------------------- build_rotation_block
RECURSIVE RotationLoop(_, _, _, _, _)
RotationLoop(gate, qs, ths, i, prog) ==
    IF i > Len(qs) THEN Ok(prog)
    ELSE IF i > Len(ths) THEN Raised
    ELSE RotationLoop(gate, qs, ths, i + 1, Append(prog, Gate1(gate, ths[i], qs[i])))

build_rotation_block(axis, qs, ths) ==
    RotationLoop(gate_from_axis(axis, 1), qs, ths, 1, <<>>)

\* ---------------------------------------- build_controlled_rotation_block
\* faulty variant: the target is listed before the control
EmitControlled_swapped(gate, theta, qubit_control, qubit) ==
    Gate2(gate, theta, qubit, qubit_control)

EmitControlled(gate, theta, qubit_control, qubit) ==
    Gate2(gate, theta, qubit_control, qubit)

RECURSIVE ControlledLoop(_, _, _, _, _, _, _)
ControlledLoop(gate, qs, ths, qubit_control, k, i, prog) ==
    IF k > Len(qs) THEN Ok(prog)
    ELSE IF qs[k] # qubit_control
         THEN IF i > Len(ths) THEN Raised
              ELSE ControlledLoop(gate, qs, ths, qubit_control, k + 1, i + 1,
                       Append(prog, EmitControlled(gate, ths[i], qubit_control, qs[k])))
         ELSE ControlledLoop(gate, qs, ths, qubit_control, k + 1, i, prog)

build_controlled_rotation_block(axis, qs, ths, qubit_control) ==
    ControlledLoop(gate_from_axis(axis, 2), qs, ths, qubit_control, 1, 1, <<>>)

\* --------------------------------------------------------- dagger_and_flip
\* faulty variant: the mapping is built from the ordering without reversing it
qubits_reversed_identity(qs) == [q \in Range(qs) |-> q]

\* dict(zip(qubits, reversed(qubits))): a later pair overwrites an earlier one
qubits_reversed(qs) ==
    [q \in Range(qs) |->
        LET last == CHOOSE k \in 1..Len(qs) :
                        qs[k] = q /\ \A j \in (k + 1)..Len(qs) : qs[j] # q
        IN  qs[Len(qs) + 1 - last]]

\* faulty variant: the angles are copied without negation
negated_params_kept(params) == params

negated_params(params) == [k \in 1..Len(params) |-> (-1) * params[k]]

\* faulty variant: the reversed walk starts one instruction too early
reversed_instructions_short(prog) ==
    [k \in 1..(Len(prog) - 1) |-> prog[Len(prog) - k]]

\* the instructions of program in the order the loop visits them
reversed_instructions(prog) == [k \in 1..Len(prog) |-> prog[Len(prog) + 1 - k]]

RECURSIVE FlipLoop(_, _, _, _)
FlipLoop(todo, map, k, flipped_program) ==
    IF k > Len(todo) THEN Ok(flipped_program)
    ELSE LET gate == todo[k]
         IN  IF \E j \in 1..Len(gate.qubits) : gate.qubits[j] \notin DOMAIN map
             THEN Raised
             ELSE FlipLoop(todo, map, k + 1,
                      Append(flipped_program,
                             [name   |-> gates_dict[gate.name],
                              params |-> negated_params(gate.params),
                              qubits |-> [j \in 1..Len(gate.qubits) |->
                                              map[gate.qubits[j]]]]))

dagger_and_flip(prog, qs) ==
    FlipLoop(reversed_instructions(prog), qubits_reversed(qs), 1, <<>>)

\* ------------------------------------------------------------ build_circuit
\* faulty variant: blocks of n angles instead of n - 1
start_theta_wide(n, i) == n + n * i

\* start_theta of the i-th controlled block (i = 0..n-1) and of the final block
start_theta(n, i) == n + (n - 1) * i

\* The blocks are appended to self.program one by one; acc is self.program so
\* far.  The result is [raised, program]: program is self.program when the
\* loop ends or when the exception leaves build_circuit.
RECURSIVE ControlledBlocks(_, _, _, _, _, _)
ControlledBlocks(n, ax, ths, input, i, acc) ==
    IF i >= n THEN [raised |-> FALSE, program |-> acc]
    ELSE IF i + 1 > Len(input) THEN [raised |-> TRUE, program |-> acc]
    ELSE LET block == build_controlled_rotation_block(
                          ax[i + 2], input,
                          Slice(ths, start_theta(n, i), start_theta(n, i) + (n - 1)),
                          input[i + 1])
         IN  IF block.raised THEN [raised |-> TRUE, program |-> acc]
             ELSE ControlledBlocks(n, ax, ths, input, i + 1, acc \o block.instructions)

\* self.program after the three stages of build_circuit that append to it
Encode(n, qs, ax, ths, acc) ==
    LET input == Slice(qs, 0, n)
        first == build_rotation_block(ax[1], input, Slice(ths, 0, n))
    IN  IF first.raised THEN [raised |-> TRUE, program |-> acc]
        ELSE LET mid == ControlledBlocks(n, ax, ths, input, 0, acc \o first.instructions)
             IN  IF mid.raised THEN mid
                 ELSE LET last == build_rotation_block(
                                      ax[n + 2], input,
                                      Slice(ths, start_theta(n, n), start_theta(n, n) + n))
                      IN  IF last.raised THEN [raised |-> TRUE, program |-> mid.program]
                          ELSE [raised |-> FALSE,
                                program |-> mid.program \o last.instructions]

\* ---------------------------------------------------------------- inputs
Labels == 0..MaxLabel

IsDuplicateFree(s) == \A j, k \in 1..Len(s) : s[j] = s[k] => j = k

\* explicit `qubits` arguments: every duplicate-free sequence of labels up to
\* MaxOrderLen entries, and every sequence at all up to MaxDupLen entries
Orderings ==
    {s \in SeqsUpTo(Labels, MaxOrderLen) : IsDuplicateFree(s) \/ Len(s) <= MaxDupLen}

AxisNames == <<"X", "Y", "Z">>

\* axes lists of length n + 2 that cycle through the three axes
AxesFrom(n, a0) == [k \in 1..(n + 2) |-> AxisNames[((a0 + k) % 3) + 1]]

NumThetas(n) == 2 * n + n * (n - 1)

\* pairwise distinct angles, negative, zero and positive
ThetasOfLen(len) == [k \in 1..len |-> k - 2]

\* ------------------------------------------------------------------ Init
NoFlip ==
    /\ flip_program = <<>>
    /\ flip_qubits = <<>>
    /\ flipped = <<>>

\* The state after QAECircuit(num_qubits, num_latent_qubits, thetas, axes,
\* qubits).  The latent qubits are among the circuit's qubits, so L <= N and
\* hence n <= N.  `qubits` is absent (0..N-1) or explicit, `axes` is absent
\* (n + 2 times 'X') or an explicit list of n + 2 axes, and `thetas` has any
\* length from 0 to ExtraThetas more than the documented 2n + n(n-1).
Init ==
    /\ \E N \in 0..MaxQubits : \E L \in 0..N :
         /\ num_qubits = N
         /\ num_latent_qubits = L
         /\ num_input_qubits = NumInputQubits(N, L)
         /\ qubits \in {DefaultQubits(N)} \cup Orderings
         /\ axes \in {DefaultAxes(NumInputQubits(N, L))}
                     \cup {AxesFrom(NumInputQubits(N, L), a0) : a0 \in 0..2}
         /\ \E len \in 0..(NumThetas(NumInputQubits(N, L)) + ExtraThetas) :
                thetas = ThetasOfLen(len)
    /\ program = <<>>
    /\ returns = <<>>
    /\ NoFlip

\* --------------------------------------------------------------- actions
BuildCircuit ==
    /\ Len(returns) < MaxCalls
    /\ LET built == Encode(num_input_qubits, qubits, axes, thetas, program)
       IN  /\ program' = built.program
           /\ IF built.raised THEN returns' = Append(returns, Raised)
              ELSE LET decode == dagger_and_flip(built.program, qubits)
                   IN  IF decode.raised THEN returns' = Append(returns, Raised)
                       ELSE returns' = Append(returns,
                                Ok(built.program \o decode.instructions))
    /\ UNCHANGED <<config, flip_program, flip_qubits, flipped>>

Next == BuildCircuit

Spec == Init /\ [][Next]_vars

\* ==================================================================== claims
\* a valid configuration: thetas and axes of the documented lengths, and a
\* duplicate-free qubit ordering that has at least num_qubits entries
ValidConfig ==
    /\ Len(thetas) = NumThetas(num_input_qubits)
    /\ Len(axes) = num_input_qubits + 2
    /\ IsDuplicateFree(qubits)
    /\ Len(qubits) >= num_qubits

\* build_circuit has been called exactly once on the object
FirstCallDone == Len(returns) = 1

\* the first call returned a program
FirstReturned == FirstCallDone /\ ~returns[1].raised

\* the input qubits: the first n entries of the ordering
InputQubits == SubSeq(qubits, 1, Min(num_input_qubits, Len(qubits)))

\* after the first call self.program is the encode stage and the returned
\* program continues with the decode stage
EncodeStage == program

DecodeStage ==
    SubSeq(returns[1].instructions, Len(program) + 1, Len(returns[1].instructions))

\* the position-reversal mapping of a duplicate-free ordering
ReversalOf(q) ==
    LET j == CHOOSE k \in 1..Len(qubits) : qubits[k] = q
    IN  qubits[Len(qubits) + 1 - j]

QubitsOf(prog) == UNION {Range(prog[k].qubits) : k \in 1..Len(prog)}

\* C1: for a valid configuration the program returned by the first
\* build_circuit call is encode followed by decode, and the k-th decode
\* instruction is the (len(encode)-1-k)-th encode instruction with the same
\* gate type, every angle negated and every qubit sent through the
\* position-reversal mapping of the full ordering, control first.
C1_DecodeMirrorsEncode ==
    (FirstCallDone /\ ValidConfig) =>
        /\ ~returns[1].raised
        /\ SubSeq(returns[1].instructions, 1, Len(EncodeStage)) = EncodeStage
        /\ Len(DecodeStage) = Len(EncodeStage)
        /\ \A k \in 1..Len(EncodeStage) :
              LET d == DecodeStage[k]
                  e == EncodeStage[Len(EncodeStage) + 1 - k]
              IN  /\ d.name = e.name
                  /\ Len(d.params) = Len(e.params)
                  /\ \A j \in 1..Len(e.params) : d.params[j] = 0 - e.params[j]
                  /\ Len(d.qubits) = Len(e.qubits)
                  /\ \A j \in 1..Len(e.qubits) : d.qubits[j] = ReversalOf(e.qubits[j])

C1_Witness ==
    /\ FirstReturned /\ ValidConfig
    /\ num_input_qubits = 2
    /\ Len(qubits) > num_input_qubits
    /\ \E k \in 1..Len(EncodeStage) :
          Len(EncodeStage[k].qubits) = 2 /\ EncodeStage[k].params[1] # 0

\* C2: for a valid configuration the encode stage has 2n + n(n-1)
\* instructions, the decode stage as many, the returned program twice that.
C2_Lengths ==
    (FirstCallDone /\ ValidConfig) =>
        /\ ~returns[1].raised
        /\ Len(EncodeStage) = 2 * num_input_qubits
                              + num_input_qubits * (num_input_qubits - 1)
        /\ Len(DecodeStage) = Len(EncodeStage)
        /\ Len(returns[1].instructions) =
               2 * (2 * num_input_qubits + num_input_qubits * (num_input_qubits - 1))

C2_Witness ==
    /\ FirstReturned /\ ValidConfig
    /\ num_input_qubits = 3
    /\ Len(returns[1].instructions) = 24

\* C7: for a valid configuration the i-th controlled block (i = 0..n-1) is
\* n-1 instructions, each with control inputQubits[i] listed first, one per
\* input qubit other than the control, targets in input-qubit order.
ControlledBlockOf(i) ==
    SubSeq(EncodeStage,
           num_input_qubits + (num_input_qubits - 1) * i + 1,
           num_input_qubits + (num_input_qubits - 1) * (i + 1))

NotControl(i) == SelectSeq(InputQubits, LAMBDA q : q # InputQubits[i + 1])

C7_ControlledBlocks ==
    (FirstCallDone /\ ValidConfig) =>
        /\ ~returns[1].raised
        /\ \A i \in 0..(num_input_qubits - 1) :
              LET block == ControlledBlockOf(i)
              IN  /\ Len(block) = num_input_qubits - 1
                  /\ \A k \in 1..Len(block) :
                        /\ Len(block[k].qubits) = 2
                        /\ block[k].qubits[1] = InputQubits[i + 1]
                  /\ [k \in 1..Len(block) |-> block[k].qubits[2]] = NotControl(i)

C7_Witness ==
    /\ FirstReturned /\ ValidConfig
    /\ num_input_qubits = 3
    /\ qubits # DefaultQubits(num_qubits)
    /\ Len(ControlledBlockOf(1)) = 2
    /\ ControlledBlockOf(1)[1].qubits[2] = qubits[1]
    /\ ControlledBlockOf(1)[2].qubits[2] = qubits[3]

\* C9: for a valid configuration the k-th encode instruction carries the
\* angle thetas[k], for every index k of thetas.
C9_ThetaBinding ==
    (FirstCallDone /\ ValidConfig) =>
        /\ ~returns[1].raised
        /\ Len(EncodeStage) = Len(thetas)
        /\ \A k \in 1..Len(thetas) : EncodeStage[k].params = <<thetas[k]>>

C9_Witness ==
    /\ FirstReturned /\ ValidConfig
    /\ num_input_qubits = 3
    /\ Len(thetas) = 12
    /\ EncodeStage[12].params = <<thetas[12]>>
    /\ Len(EncodeStage[9].qubits) = 2

\* C10: for a valid configuration every encode instruction acts on the first
\* n entries of the ordering only and every decode instruction on the last n
\* entries only; when N + L is even and the ordering has exactly N entries,
\* the qubits both stages touch are exactly the L entries at positions
\* n-L..n-1.
FirstEntries == {qubits[k] : k \in 1..num_input_qubits}

LastEntries == {qubits[k] : k \in (Len(qubits) - num_input_qubits + 1)..Len(qubits)}

LatentEntries ==
    {qubits[k + 1] : k \in (num_input_qubits - num_latent_qubits)..(num_input_qubits - 1)}

C10_Footprint ==
    (FirstCallDone /\ ValidConfig) =>
        /\ ~returns[1].raised
        /\ QubitsOf(EncodeStage) \subseteq FirstEntries
        /\ QubitsOf(DecodeStage) \subseteq LastEntries
        /\ ((num_qubits + num_latent_qubits) % 2 = 0 /\ Len(qubits) = num_qubits)
              => (QubitsOf(EncodeStage) \cap QubitsOf(DecodeStage) = LatentEntries
                  /\ Cardinality(LatentEntries) = num_latent_qubits)

C10_Witness ==
    /\ FirstReturned /\ ValidConfig
    /\ num_qubits = 3 /\ num_latent_qubits = 1
    /\ Len(qubits) = 3
    /\ qubits # DefaultQubits(3)
    /\ QubitsOf(EncodeStage) \cap QubitsOf(DecodeStage) = {qubits[2]}

\* C4: every build_circuit call on the same object returns the same
\* instruction sequence as the first call.
C4_BuildIsPure ==
    \A k \in 1..Len(returns) : returns[k] = returns[1]

\* C5: when len(thetas) differs from 2n + n(n-1) build_circuit raises and
\* no instruction has been appended to the object's program.
C5_ThetasLengthRejected ==
    (FirstCallDone /\ Len(thetas) # NumThetas(num_input_qubits)) =>
        (returns[1].raised /\ program = <<>>)

\* C6: every rotation block is made of R<axis> instructions and every
\* controlled block of CR<axis> instructions, for the axis of the block.
C6_GateTypeOfAxis ==
    (FirstCallDone /\ ValidConfig /\ ~returns[1].raised) =>
        /\ \A k \in 1..num_input_qubits :
              /\ EncodeStage[k].name = "R" \o axes[1]
              /\ EncodeStage[Len(EncodeStage) - num_input_qubits + k].name
                     = "R" \o axes[num_input_qubits + 2]
        /\ \A i \in 0..(num_input_qubits - 1) :
              \A k \in 1..Len(ControlledBlockOf(i)) :
                  ControlledBlockOf(i)[k].name = "CR" \o axes[i + 2]

\* C8: a qubit ordering with a duplicate entry, or shorter than num_qubits,
\* makes build_circuit raise before any instruction is appended.
C8_OrderingRejected ==
    (FirstCallDone /\ (~IsDuplicateFree(qubits) \/ Len(qubits) < num_qubits)) =>
        (returns[1].raised /\ program = <<>>)

\* ------------------------------------- dagger_and_flip called on its own
\* Programs of rotation and controlled-rotation instructions: every gate type
\* of the registry, one qubit for a rotation, control and target (distinct)
\* for a controlled rotation.
FlipAngles == 0..MaxAngle

FlipInstructions ==
    {Gate1(g, t, q) : g \in {"RX", "RY", "RZ"}, t \in FlipAngles, q \in Labels}
    \cup
    {Gate2(g, t, c[1], c[2]) : g \in {"CRX", "CRY", "CRZ"}, t \in FlipAngles,
                               c \in {d \in Labels \X Labels : d[1] # d[2]}}

FlipInit ==
    /\ num_qubits = 0
    /\ num_latent_qubits = 0
    /\ num_input_qubits = NumInputQubits(0, 0)
    /\ qubits = DefaultQubits(0)
    /\ axes = DefaultAxes(NumInputQubits(0, 0))
    /\ thetas = <<>>
    /\ program = <<>>
    /\ returns = <<>>
    /\ flip_program \in SeqsUpTo(FlipInstructions, MaxProgLen)
    /\ flip_qubits \in Orderings
    /\ flipped = <<>>

\* dagger_and_flip applied to flip_program, then to its own result
DaggerAndFlipCall ==
    /\ Len(flipped) < MaxFlips
    /\ flipped # <<>> => ~flipped[Len(flipped)].raised
    /\ LET arg == IF flipped = <<>> THEN flip_program
                  ELSE flipped[Len(flipped)].instructions
       IN  flipped' = Append(flipped, dagger_and_flip(arg, flip_qubits))
    /\ UNCHANGED <<config, program, returns, flip_program, flip_qubits>>

FlipNext == DaggerAndFlipCall

FlipSpec == FlipInit /\ [][FlipNext]_vars

\* C3: dagger_and_flip applied twice with a duplicate-free ordering that holds
\* every qubit of the program gives the program back.
C3_Involution ==
    (Len(flipped) = 2 /\ IsDuplicateFree(flip_qubits)
                      /\ QubitsOf(flip_program) \subseteq Range(flip_qubits)) =>
        (~flipped[2].raised /\ flipped[2].instructions = flip_program)

====
